---- MODULE Spec2Model ----
(***************************************************************************)
(* Model of 1_foundations/app.py: the tool-augmented conversation loop     *)
(* Me.chat, the dispatch Me.handle_tool_call, the two registered tools and *)
(* the notifier push.                                                      *)
(*                                                                         *)
(* Under Spec one behaviour is one call of Me.chat.  The model provider and *)
(* the notifier endpoint are the environment: every response the provider  *)
(* can return and every outcome of the HTTP post are drawn                 *)
(* nondeterministically from the small sets below.                         *)
(*                                                                         *)
(* Under SpecLoad one behaviour constructs Me over a me/ directory (up to  *)
(* MaxLoads times, iterdir yielding the entries in any order) and calls    *)
(* system_prompt on the result.                                            *)
(***************************************************************************)
EXTENDS Integers, Sequences, FiniteSets, TLC

(* ---------------------------- bounds ----------------------------------- *)
\* model calls of one turn that the check explores
MaxCalls == 3
\* tool invocations carried by one model response
MaxBatch == 2
\* tool invocations issued by the provider over the whole turn
MaxInvocations == 2
\* direct entries of the me/ directory
MaxEntries == 3
\* loads of the same directory that the check compares
MaxLoads == 2

(* ------------------------ Python values -------------------------------- *)
\* A Python value as far as the program looks at it: a dict is its set of
\* <<key, value>> items; None and a list carry no items.
PyDict(items) == [type |-> "dict", items |-> items]
PyNone == [type |-> "NoneType", items |-> {}]
PyList == [type |-> "list", items |-> {}]

Keys(d) == {kv[1] : kv \in d.items}
Get(d, k, default) == IF k \in Keys(d)
                      THEN (CHOOSE kv \in d.items : kv[1] = k)[2]
                      ELSE default

\* json.loads on the argument payloads the provider is taken to send.
\* ok = FALSE stands for json.JSONDecodeError.
json_loads(s) ==
  CASE s = "{\"question\": \"What is your favorite color?\"}" ->
         [ok |-> TRUE, value |-> PyDict({<<"question", "What is your favorite color?">>})]
    [] s = "{\"email\": \"a@b.c\"}" ->
         [ok |-> TRUE, value |-> PyDict({<<"email", "a@b.c">>})]
    [] s = "{\"text\": \"hello\"}" ->
         [ok |-> TRUE, value |-> PyDict({<<"text", "hello">>})]
    [] s = "[]" ->
         [ok |-> TRUE, value |-> PyList]
    [] OTHER ->
         [ok |-> FALSE, value |-> PyNone]

\* json.dumps on the values a tool can return.
json_dumps(v) ==
  CASE v = PyDict({}) -> "{}"
    [] v = PyDict({<<"recorded", "ok">>}) -> "{\"recorded\": \"ok\"}"
    [] v = PyNone -> "null"

(* ------------------------- module globals ------------------------------ *)
\* What globals().get(tool_name) finds.  "function" is a callable, "object"
\* a truthy non-callable (tools, record_user_details_json, ...), "absent" is
\* the None that .get returns for a name the module does not bind.
globals_get(tool_name) ==
  CASE tool_name = "record_user_details" -> "function"
    [] tool_name = "record_unknown_question" -> "function"
    [] tool_name = "push" -> "function"
    [] tool_name = "tools" -> "object"
    [] OTHER -> "absent"

\* The names declared to the model in the tools list.
RegisteredTools == {"record_user_details", "record_unknown_question"}

\* Parameters of the module's functions: required and all accepted names.
Required(tool_name) ==
  CASE tool_name = "record_user_details" -> {"email"}
    [] tool_name = "record_unknown_question" -> {"question"}
    [] tool_name = "push" -> {"text"}
    [] OTHER -> {}

Accepted(tool_name) ==
  CASE tool_name = "record_user_details" -> {"email", "name", "notes"}
    [] tool_name = "record_unknown_question" -> {"question"}
    [] tool_name = "push" -> {"text"}
    [] OTHER -> {}

\* tool(**arguments) binds: arguments is a mapping, the tool is callable,
\* every required parameter is given and no unknown keyword is.
Binds(tool_name, arguments) ==
  /\ globals_get(tool_name) = "function"
  /\ arguments.type = "dict"
  /\ Required(tool_name) \subseteq Keys(arguments)
  /\ Keys(arguments) \subseteq Accepted(tool_name)

\* Variant: the defaults of name and notes are exchanged.
PushText_swappedDefaults(tool_name, arguments) ==
  CASE tool_name = "record_user_details" ->
         "Recording " \o Get(arguments, "name", "not provided")
           \o " with email " \o Get(arguments, "email", "")
           \o " and notes " \o Get(arguments, "notes", "Name not provided")
    [] tool_name = "record_unknown_question" ->
         "Recording " \o Get(arguments, "question", "")
    [] OTHER -> Get(arguments, "text", "")

\* The text handed to push by the function called.
PushText(tool_name, arguments) ==
  CASE tool_name = "record_user_details" ->
         "Recording " \o Get(arguments, "name", "Name not provided")
           \o " with email " \o Get(arguments, "email", "")
           \o " and notes " \o Get(arguments, "notes", "not provided")
    [] tool_name = "record_unknown_question" ->
         "Recording " \o Get(arguments, "question", "")
    [] OTHER -> Get(arguments, "text", "")

\* What the function called returns once push has returned.
ToolReturn(tool_name) ==
  IF tool_name \in RegisteredTools THEN PyDict({<<"recorded", "ok">>}) ELSE PyNone

(* ----------------------------- messages -------------------------------- *)
NoId == "-"
Msg(role, content) ==
  [role |-> role, content |-> content, tool_calls |-> <<>>, tool_call_id |-> NoId]
AssistantMsg(content, tcs) ==
  [role |-> "assistant", content |-> content, tool_calls |-> tcs, tool_call_id |-> NoId]
ToolMsg(content, id) ==
  [role |-> "tool", content |-> content, tool_calls |-> <<>>, tool_call_id |-> id]

(* ------------------------------ texts ---------------------------------- *)
\* A file name or a key is its sequence of characters; the text of a file or
\* of a page is a sequence of tokens, each a run of characters without
\* leading or trailing white space, or one white-space character.
Whitespace == {" ", "\n", "\t"}

RECURSIVE lstrip(_)
lstrip(t) == IF t # <<>> /\ Head(t) \in Whitespace THEN lstrip(Tail(t)) ELSE t

RECURSIVE rstrip(_)
rstrip(t) == IF t # <<>> /\ t[Len(t)] \in Whitespace
             THEN rstrip(SubSeq(t, 1, Len(t) - 1)) ELSE t

\* str.strip
strip(t) == rstrip(lstrip(t))

RECURSIVE Join(_)
\* The string a sequence of characters, tokens or parts spells.
Join(t) == IF t = <<>> THEN "" ELSE Head(t) \o Join(Tail(t))

LowerCase == <<"a", "b", "c", "d", "e", "f", "i", "m", "n", "o", "p", "s", "t", "v", "y">>
UpperCase == <<"A", "B", "C", "D", "E", "F", "I", "M", "N", "O", "P", "S", "T", "V", "Y">>

IsCased(c) == \E i \in 1..Len(LowerCase) : c = LowerCase[i] \/ c = UpperCase[i]

\* str.lower and str.upper on one character.
lower_char(c) ==
  IF \E i \in 1..Len(UpperCase) : c = UpperCase[i]
  THEN LowerCase[CHOOSE i \in 1..Len(UpperCase) : c = UpperCase[i]]
  ELSE c

upper_char(c) ==
  IF \E i \in 1..Len(LowerCase) : c = LowerCase[i]
  THEN UpperCase[CHOOSE i \in 1..Len(LowerCase) : c = LowerCase[i]]
  ELSE c

\* str.lower
lower(w) == [i \in 1..Len(w) |-> lower_char(w[i])]

\* str.title: a cased character is upper-cased when the character before it
\* is not cased (or it is the first), lower-cased otherwise.
title(w) ==
  [i \in 1..Len(w) |->
     IF i > 1 /\ IsCased(w[i - 1]) THEN lower_char(w[i]) ELSE upper_char(w[i])]

(* --------------------------- pathlib.Path ------------------------------ *)
\* Position of the last "." of a name, 0 if there is none.
LastDot(nm) ==
  IF \E i \in 1..Len(nm) : nm[i] = "."
  THEN CHOOSE i \in 1..Len(nm) : nm[i] = "." /\ \A j \in (i + 1)..Len(nm) : nm[j] # "."
  ELSE 0

\* Path.suffix: from the last dot on, unless the dot is the first or the
\* last character of the name.
suffix(nm) ==
  IF LastDot(nm) > 1 /\ LastDot(nm) < Len(nm)
  THEN SubSeq(nm, LastDot(nm), Len(nm)) ELSE <<>>

\* Path.stem: the name without its suffix.
stem(nm) == SubSeq(nm, 1, Len(nm) - Len(suffix(nm)))

(* --------------------------- the me/ directory ------------------------- *)
\* A direct entry of me/.  A file is what reading it gives: utf8 is the
\* decoded text (utf8_ok = FALSE: the bytes do not decode), pages the texts
\* PdfReader extracts page by page (pdf_ok = FALSE: PdfReader raises).
File(nm, utf8_ok, utf8, pdf_ok, pages) ==
  [name |-> nm, is_file |-> TRUE, utf8_ok |-> utf8_ok, utf8 |-> utf8,
   pdf_ok |-> pdf_ok, pages |-> pages]
SubDir(nm) ==
  [name |-> nm, is_file |-> FALSE, utf8_ok |-> FALSE, utf8 |-> <<>>,
   pdf_ok |-> FALSE, pages |-> <<>>]

E_cv_txt == File(<<"c", "v", ".", "t", "x", "t">>,
                 TRUE, <<"\n", "Ten years of", " ", "data work.", "\n">>, FALSE, <<>>)
E_cv_pdf == File(<<"c", "v", ".", "p", "d", "f">>,
                 FALSE, <<>>, TRUE, <<<<"Curriculum", " ", "vitae">>, <<>>, <<"Page 3">>>>)
E_bio_PDF == File(<<"b", "i", "o", ".", "P", "D", "F">>,
                  TRUE, <<"%PDF-1.4 truncated">>, FALSE, <<>>)
E_empty_txt == File(<<"e", ".", "t", "x", "t">>, TRUE, <<>>, FALSE, <<>>)
E_blank_md == File(<<"b", ".", "m", "d">>, TRUE, <<" ", "\n", "\t">>, FALSE, <<>>)
E_photo == File(<<"p", ".", "j", "p", "g">>, FALSE, <<>>, FALSE, <<>>)
E_my_notes == File(<<"m", "y", "_", "n", "o", "t", "e", "s">>,
                   TRUE, <<" ", "I like tea.", " ">>, FALSE, <<>>)
E_dotenv == File(<<".", "e", "n", "v">>, TRUE, <<"TOKEN=abc", "\n">>, FALSE, <<>>)
E_docs == SubDir(<<"d", "o", "c", "s">>)

DirEntries == { E_cv_txt, E_cv_pdf, E_bio_PDF, E_empty_txt, E_blank_md, E_photo,
                E_my_notes, E_dotenv, E_docs }

(* --------------------------- the loader -------------------------------- *)
\* The result of a read: raised (an exception leaves the function), or a
\* value, which is None or a text.
Raised == [raised |-> TRUE, none |-> FALSE, text |-> ""]
RNone == [raised |-> FALSE, none |-> TRUE, text |-> ""]
RText(str) == [raised |-> FALSE, none |-> FALSE, text |-> str]

RECURSIVE PagesText(_)
\* content += text + "\n" for every page whose text is not empty
PagesText(pages) ==
  IF pages = <<>> THEN <<>>
  ELSE (IF Head(pages) # <<>> THEN Head(pages) \o <<"\n">> ELSE <<>>)
         \o PagesText(Tail(pages))

\* Me._read_pdf
read_pdf(e) == IF e.pdf_ok THEN RText(Join(strip(PagesText(e.pages)))) ELSE RNone

\* Me._read_text_file
read_text_file(e) == IF e.utf8_ok THEN RText(Join(strip(e.utf8))) ELSE RNone

\* Me._read_file_content
read_file_content(e) ==
  LET file_extension == Join(lower(suffix(e.name)))
  IN  IF file_extension = ".pdf" THEN read_pdf(e)
      ELSE IF file_extension \in {".txt", ".md"} THEN read_text_file(e)
      ELSE IF read_text_file(e).raised THEN RNone ELSE read_text_file(e)

\* self.resources is a dict: the sequence of its items in insertion order.
NoResources == <<>>
KeySet(res) == { res[i].key : i \in 1..Len(res) }
Lookup(res, k) == res[CHOOSE i \in 1..Len(res) : res[i].key = k].content

\* self.resources[key] = content
Put(res, k, v) ==
  IF k \in KeySet(res)
  THEN [i \in 1..Len(res) |-> IF res[i].key = k THEN [key |-> k, content |-> v] ELSE res[i]]
  ELSE Append(res, [key |-> k, content |-> v])

\* Variant: the test "if content:" is missing, every file read gets a key.
load_entry_keepEmpty(res, e) ==
  IF ~e.is_file THEN [resources |-> res, raised |-> FALSE]
  ELSE LET content == read_file_content(e)
       IN  IF content.raised THEN [resources |-> res, raised |-> FALSE]
           ELSE [resources |-> Put(res, stem(e.name), content.text), raised |-> FALSE]

\* Variant: nothing more is loaded once one resource is in the mapping.
load_entry_stopAfterFirst(res, e) ==
  IF ~e.is_file \/ res # <<>> THEN [resources |-> res, raised |-> FALSE]
  ELSE LET content == read_file_content(e)
       IN  IF content.raised THEN [resources |-> res, raised |-> FALSE]
           ELSE IF ~content.none /\ content.text # ""
                THEN [resources |-> Put(res, stem(e.name), content.text), raised |-> FALSE]
                ELSE [resources |-> res, raised |-> FALSE]

\* One pass of the for loop of Me._load_all_resources over entry e: the
\* mapping afterwards, and whether an exception leaves the loop.
load_entry(res, e) ==
  IF ~e.is_file THEN [resources |-> res, raised |-> FALSE]
  ELSE LET content == read_file_content(e)
       IN  IF content.raised THEN [resources |-> res, raised |-> FALSE]
           ELSE IF ~content.none /\ content.text # ""
                THEN [resources |-> Put(res, stem(e.name), content.text), raised |-> FALSE]
                ELSE [resources |-> res, raised |-> FALSE]

(* --------------------------- Me.system_prompt -------------------------- *)
RECURSIVE ResourceSections_rawKey(_)
\* Variant: the key is written as it is, without title().
ResourceSections_rawKey(res) ==
  IF res = <<>> THEN <<>>
  ELSE <<"\n### ", Join(Head(res).key), ":\n", Head(res).content, "\n">>
         \o ResourceSections_rawKey(Tail(res))

RECURSIVE ResourceSections(_)
\* f"\n### {resource_name.title()}:\n{content}\n" for every item
ResourceSections(res) ==
  IF res = <<>> THEN <<>>
  ELSE <<"\n### ", Join(title(Head(res).key)), ":\n", Head(res).content, "\n">>
         \o ResourceSections(Tail(res))

\* The parts Me.system_prompt concatenates, in order.
system_prompt_parts(nm, res) ==
  <<"You are acting as ", nm, ". You are answering questions on ", nm, "'s website, ",
    "particularly questions related to ", nm, "'s career, background, skills and experience. ",
    "Your responsibility is to represent ", nm,
    " for interactions on the website as faithfully as possible. ",
    "You are given various resources about ", nm, " which you can use to answer questions. ",
    "Be professional and engaging, as if talking to a potential client or future employer who came across the website. ",
    "If you don't know the answer to any question, use your record_unknown_question tool to record the question that you couldn't answer, even if it's about something trivial or unrelated to career. ",
    "If the user is engaging in discussion, try to steer them towards getting in touch via email; ask for their email and record it using your record_user_details tool. ">>
  \o (IF res # <<>>
      THEN <<"\n\n## Available Resources:\n">> \o ResourceSections(res)
      ELSE <<"\n\n## Note: No resources were loaded from the me/ directory.">>)
  \o <<"\n\nWith this context, please chat with the user, always staying in character as ",
       nm, ".">>

\* Me.system_prompt: the text returned.
system_prompt(nm, res) == Join(system_prompt_parts(nm, res))

(* --------------------------- environment ------------------------------- *)
\* Prior turns the chat surface can hand in.
Histories == { <<>>, <<Msg("user", "hello"), Msg("assistant", "Hi, I am Lianne.")>> }
UserMessages == {"Do you hold a patent?"}

FinishReasons == {"tool_calls", "stop", "length"}

\* The (name, arguments) pairs the provider is taken to put in a response.
InvocationKinds ==
  { [name |-> "record_unknown_question",
     arguments |-> "{\"question\": \"What is your favorite color?\"}"],
    [name |-> "record_unknown_question", arguments |-> "{\"question\": "],
    [name |-> "record_unknown_question", arguments |-> "{\"email\": \"a@b.c\"}"],
    [name |-> "record_user_details", arguments |-> "{\"email\": \"a@b.c\"}"],
    [name |-> "get_weather", arguments |-> "{\"email\": \"a@b.c\"}"],
    [name |-> "get_weather", arguments |-> "{\"question\": "],
    [name |-> "get_weather", arguments |-> "[]"],
    [name |-> "push", arguments |-> "{\"text\": \"hello\"}"],
    [name |-> "tools", arguments |-> "{\"text\": \"hello\"}"] }

\* Outcomes of requests.post: a 2xx answer, an error answer (returned, the
\* status is never looked at), or an exception of the requests library.
PostOutcomes == {"ok", "error_response", "ConnectionError"}

\* The provider's identifier of the n-th invocation of the turn.
CallId(n) == "call_" \o ToString(n)
\* The provider's text of the j-th response of the turn.
ResponseText(j) == "answer_" \o ToString(j)

NoText == "<no return>"
NoResponse ==
  [finish_reason |-> "-", content |-> NoText, tool_calls |-> <<>>, tool_calls_none |-> TRUE]

(* ------------------------------ state ---------------------------------- *)
VARIABLES
  pc,          \* position of Me.chat
  history,     \* the caller's history argument
  messages,    \* chat's local message list
  response,    \* chat's local response
  tool_calls,  \* handle_tool_call's argument
  idx,         \* position of handle_tool_call's for loop (1-based)
  results,     \* handle_tool_call's local results
  returned,    \* the text chat returned
  failure,     \* the exception that left chat, "none" if none
  calls,       \* log: the message list passed to each completions.create
  responses,   \* log: the responses completions.create returned
  batches,     \* log: the lists handle_tool_call returned
  pushes,      \* log: the requests.post calls, with their outcome
  dispatched,  \* log: identifiers whose tool was called or substituted
  name,        \* self.name
  resources,   \* self.resources
  me_dir,      \* the me/ directory: whether it exists, and its direct entries
  lpc,         \* position of Me.__init__ / _load_all_resources
  unvisited,   \* entries iterdir has not yielded yet in the running load
  loads,       \* log: the mapping each finished load left in self.resources
  prompt       \* log: the parts of the last text system_prompt returned

\* The state of the Me object and of its construction.
meVars == <<name, resources, me_dir, lpc, unvisited, loads, prompt>>

\* The state of one call of Me.chat.
chatVars == <<pc, history, messages, response, tool_calls, idx, results, returned,
              failure, calls, responses, batches, pushes, dispatched>>

vars == <<pc, history, messages, response, tool_calls, idx, results, returned,
          failure, calls, responses, batches, pushes, dispatched,
          name, resources, me_dir, lpc, unvisited, loads, prompt>>

\* The directories the loader is run on: none, or one holding up to
\* MaxEntries of the entries above.
Directories ==
  { [exists |-> FALSE, entries |-> {}] } \cup
  { [exists |-> TRUE, entries |-> S] :
      S \in { T \in SUBSET DirEntries : Cardinality(T) <= MaxEntries } }

\* The Me objects and prior turns a call of chat is explored with: the
\* object built without a me/ directory, and the one built from a directory
\* with two readable files and a sub-directory.
Scenarios ==
  { [history |-> <<>>,
     me_dir |-> [exists |-> FALSE, entries |-> {}],
     resources |-> NoResources],
    [history |-> <<Msg("user", "hello"), Msg("assistant", "Hi, I am Lianne.")>>,
     me_dir |-> [exists |-> TRUE, entries |-> {E_cv_txt, E_my_notes, E_docs}],
     resources |-> load_entry(load_entry(NoResources, E_cv_txt).resources,
                              E_my_notes).resources] }

\* chat is about to be called on a constructed Me object.
Init ==
  /\ pc = "IDLE"
  /\ \E sc \in Scenarios :
       /\ history = sc.history
       /\ me_dir = sc.me_dir
       /\ resources = sc.resources
  /\ name = "Lianne Achilles"
  /\ lpc = "loaded"
  /\ unvisited = {}
  /\ loads = <<>>
  /\ prompt = <<>>
  /\ messages = <<>>
  /\ response = NoResponse
  /\ tool_calls = <<>>
  /\ idx = 1
  /\ results = <<>>
  /\ returned = NoText
  /\ failure = "none"
  /\ calls = <<>>
  /\ responses = <<>>
  /\ batches = <<>>
  /\ pushes = <<>>
  /\ dispatched = <<>>

(* ------------------------------ Me.chat -------------------------------- *)
\* Variant: the prior turns are left out of the sequence.
InitialMessages_noHistory(hist, message) ==
  <<Msg("system", system_prompt(name, resources))>> \o <<Msg("user", message)>>

\* messages = [system] + history + [user]
InitialMessages(hist, message) ==
  <<Msg("system", system_prompt(name, resources))>> \o hist \o <<Msg("user", message)>>

\* Variant: the loop gives up signalling after two model calls (an iteration cap).
SignalsToolCalls_capped(resp) ==
  resp.finish_reason = "tool_calls" /\ Len(calls) < 2

\* response.choices[0].finish_reason == "tool_calls"
SignalsToolCalls(resp) == resp.finish_reason = "tool_calls"

\* Variant: the results are never put into the sequence.
AppendBatch_dropResults(msgs, resp, res) ==
  msgs \o <<AssistantMsg(resp.content, resp.tool_calls)>>

\* Variant: the results are put before the assistant message they answer.
AppendBatch_resultsFirst(msgs, resp, res) ==
  (msgs \o res) \o <<AssistantMsg(resp.content, resp.tool_calls)>>

\* Variant: messages is the caller's list itself (built in place).
CallerHistory_aliased(hist, msgs) == msgs

\* The caller's history list after chat has assigned or extended messages:
\* line 178 builds messages with +, a new list, so it is left as it was.
CallerHistory(hist, msgs) == hist

\* messages.append(message); messages.extend(results)
AppendBatch(msgs, resp, res) ==
  (msgs \o <<AssistantMsg(resp.content, resp.tool_calls)>>) \o res

\* Variant: every result carries the identifier of the batch's first invocation.
ToolResult_staleId(tc, value) == ToolMsg(json_dumps(value), tool_calls[1].id)

\* {"role": "tool", "content": json.dumps(result), "tool_call_id": tool_call.id}
ToolResult(tc, value) == ToolMsg(json_dumps(value), tc.id)

\* Variant: a payload that does not parse or bind is answered with {}.
Dispatch_lenient(tc) ==
  LET parsed == json_loads(tc.arguments)
      tool == globals_get(tc.name)
  IN  IF ~parsed.ok THEN "substitute"
      ELSE IF tool = "absent" THEN "substitute"
      ELSE IF Binds(tc.name, parsed.value) THEN "call"
      ELSE "substitute"

\* What one pass of handle_tool_call's loop body does with tool_call tc:
\* json.loads first, then the lookup, then the call or the substitute {}.
Dispatch(tc) ==
  LET parsed == json_loads(tc.arguments)
      tool == globals_get(tc.name)
  IN  IF ~parsed.ok THEN "JSONDecodeError"
      ELSE IF tool = "absent" THEN "substitute"
      ELSE IF Binds(tc.name, parsed.value) THEN "call"
      ELSE "TypeError"

\* What push does with the outcome of requests.post: only an exception of
\* the post leaves it, the answer is dropped.
PushRaises(outcome) == outcome = "ConnectionError"

RECURSIVE Issued(_)
\* Number of invocations the provider has issued in the responses so far.
Issued(resps) ==
  IF resps = <<>> THEN 0
  ELSE Len(Head(resps).tool_calls) + Issued(Tail(resps))

BatchesOf(n) == UNION { [1..k -> InvocationKinds] : k \in 0..n }

\* The responses the provider can give to the next call of the turn.
ProviderResponses ==
  LET j == Len(responses) + 1
      base == Issued(responses)
      room == IF MaxInvocations - base < MaxBatch
              THEN MaxInvocations - base ELSE MaxBatch
  IN  { [finish_reason |-> fr,
         content |-> ResponseText(j),
         tool_calls |-> [k \in 1..Len(b) |->
                           [id |-> CallId(base + k),
                            name |-> b[k].name,
                            arguments |-> b[k].arguments]],
         tool_calls_none |-> FALSE] :
        fr \in FinishReasons, b \in BatchesOf(room) }
      \cup
      { [finish_reason |-> fr, content |-> ResponseText(j),
         tool_calls |-> <<>>, tool_calls_none |-> TRUE] : fr \in FinishReasons }

\* chat is entered: line 178.
ChatStart ==
  /\ pc = "IDLE"
  /\ \E message \in UserMessages :
       messages' = InitialMessages(history, message)
  /\ history' = CallerHistory(history, messages')
  /\ pc' = "AWAITING_MODEL"
  /\ UNCHANGED meVars
  /\ UNCHANGED <<response, tool_calls, idx, results, returned,
                 failure, calls, responses, batches, pushes, dispatched>>

\* Variant: the exception of completions.create is caught and the call retried.
ModelFails_retry ==
  /\ pc = "AWAITING_MODEL"
  /\ Len(calls) < MaxCalls
  /\ calls' = Append(calls, messages)
  /\ pc' = "AWAITING_MODEL"
  /\ failure' = "APIError"
  /\ UNCHANGED meVars
  /\ UNCHANGED <<history, messages, response, tool_calls, idx, results,
                 returned, responses, batches, pushes, dispatched>>

\* completions.create raises: nothing in chat catches it.
ModelFails ==
  /\ pc = "AWAITING_MODEL"
  /\ Len(calls) < MaxCalls
  /\ calls' = Append(calls, messages)
  /\ pc' = "FAILED"
  /\ failure' = "APIError"
  /\ UNCHANGED meVars
  /\ UNCHANGED <<history, messages, response, tool_calls, idx, results,
                 returned, responses, batches, pushes, dispatched>>

\* Variant: the assistant message is appended as soon as the response signals
\* tool calls, before handle_tool_call runs.
ModelResponds_appendFirst ==
  /\ pc = "AWAITING_MODEL"
  /\ Len(calls) < MaxCalls
  /\ \E resp \in ProviderResponses :
       /\ calls' = Append(calls, messages)
       /\ responses' = Append(responses, resp)
       /\ response' = resp
       /\ IF SignalsToolCalls(resp)
          THEN /\ pc' = "TOOLS_PENDING"
               /\ tool_calls' = resp.tool_calls
               /\ idx' = 1
               /\ results' = <<>>
               /\ messages' = Append(messages, AssistantMsg(resp.content, resp.tool_calls))
               /\ UNCHANGED returned
          ELSE /\ pc' = "DONE"
               /\ returned' = resp.content
               /\ UNCHANGED <<tool_calls, idx, results, messages>>
  /\ UNCHANGED meVars
  /\ UNCHANGED <<history, failure, batches, pushes, dispatched>>

\* completions.create returns a response: lines 181-184 and 188-190.
ModelResponds ==
  /\ pc = "AWAITING_MODEL"
  /\ Len(calls) < MaxCalls
  /\ \E resp \in ProviderResponses :
       /\ calls' = Append(calls, messages)
       /\ responses' = Append(responses, resp)
       /\ response' = resp
       /\ IF SignalsToolCalls(resp)
          THEN /\ pc' = "TOOLS_PENDING"
               /\ tool_calls' = resp.tool_calls
               /\ idx' = 1
               /\ results' = <<>>
               /\ UNCHANGED returned
          ELSE /\ pc' = "DONE"
               /\ returned' = resp.content
               /\ UNCHANGED <<tool_calls, idx, results>>
  /\ UNCHANGED meVars
  /\ UNCHANGED <<history, messages, failure, batches, pushes, dispatched>>

(* ------------------------ Me.handle_tool_call -------------------------- *)
\* for tool_call in tool_calls, with tool_calls = None
IterateNone ==
  /\ pc = "TOOLS_PENDING"
  /\ response.tool_calls_none
  /\ pc' = "FAILED"
  /\ failure' = "TypeError"
  /\ UNCHANGED meVars
  /\ UNCHANGED <<history, messages, response, tool_calls, idx, results,
                 returned, calls, responses, batches, pushes, dispatched>>

\* json.loads or tool(**arguments) raises: lines 150 and 153.
DispatchRaises ==
  /\ pc = "TOOLS_PENDING"
  /\ ~response.tool_calls_none
  /\ idx <= Len(tool_calls)
  /\ Dispatch(tool_calls[idx]) \in {"JSONDecodeError", "TypeError"}
  /\ pc' = "FAILED"
  /\ failure' = Dispatch(tool_calls[idx])
  /\ UNCHANGED meVars
  /\ UNCHANGED <<history, messages, response, tool_calls, idx, results,
                 returned, calls, responses, batches, pushes, dispatched>>

\* Variant: an unbound name is skipped without a result.
DispatchSubstitute_skip ==
  /\ pc = "TOOLS_PENDING"
  /\ ~response.tool_calls_none
  /\ idx <= Len(tool_calls)
  /\ Dispatch(tool_calls[idx]) = "substitute"
  /\ idx' = idx + 1
  /\ dispatched' = Append(dispatched, [id |-> tool_calls[idx].id, tool |-> "{}"])
  /\ UNCHANGED meVars
  /\ UNCHANGED <<pc, history, messages, response, tool_calls, results, returned,
                 failure, calls, responses, batches, pushes>>

\* The name is not bound: result = {}, lines 152-154.
DispatchSubstitute ==
  /\ pc = "TOOLS_PENDING"
  /\ ~response.tool_calls_none
  /\ idx <= Len(tool_calls)
  /\ Dispatch(tool_calls[idx]) = "substitute"
  /\ results' = Append(results, ToolResult(tool_calls[idx], PyDict({})))
  /\ idx' = idx + 1
  /\ dispatched' = Append(dispatched, [id |-> tool_calls[idx].id, tool |-> "{}"])
  /\ UNCHANGED meVars
  /\ UNCHANGED <<pc, history, messages, response, tool_calls, returned,
                 failure, calls, responses, batches, pushes>>

\* Variant: the function is started without waiting for its post to return.
DispatchCall_async ==
  /\ pc = "TOOLS_PENDING"
  /\ ~response.tool_calls_none
  /\ idx <= Len(tool_calls)
  /\ Dispatch(tool_calls[idx]) = "call"
  /\ LET tc == tool_calls[idx]
     IN  /\ dispatched' = Append(dispatched, [id |-> tc.id, tool |-> tc.name])
         /\ pushes' = Append(pushes,
                        [text |-> PushText(tc.name, json_loads(tc.arguments).value),
                         id |-> tc.id, outcome |-> "pending"])
         /\ results' = Append(results, ToolResult(tc, ToolReturn(tc.name)))
  /\ idx' = idx + 1
  /\ UNCHANGED meVars
  /\ UNCHANGED <<pc, history, messages, response, tool_calls,
                 returned, failure, calls, responses, batches>>

\* The function found is called and reaches requests.post: lines 153, 26/30, 15.
DispatchCall ==
  /\ pc = "TOOLS_PENDING"
  /\ ~response.tool_calls_none
  /\ idx <= Len(tool_calls)
  /\ Dispatch(tool_calls[idx]) = "call"
  /\ LET tc == tool_calls[idx]
     IN  /\ dispatched' = Append(dispatched, [id |-> tc.id, tool |-> tc.name])
         /\ pushes' = Append(pushes,
                        [text |-> PushText(tc.name, json_loads(tc.arguments).value),
                         id |-> tc.id, outcome |-> "pending"])
  /\ pc' = "IN_PUSH"
  /\ UNCHANGED meVars
  /\ UNCHANGED <<history, messages, response, tool_calls, idx, results,
                 returned, failure, calls, responses, batches>>

\* requests.post returns; push and the function return; line 154 appends.
PostReturns ==
  /\ pc = "IN_PUSH"
  /\ \E outcome \in PostOutcomes :
       /\ ~PushRaises(outcome)
       /\ pushes' = [pushes EXCEPT ![Len(pushes)].outcome = outcome]
  /\ results' = Append(results,
                  ToolResult(tool_calls[idx], ToolReturn(tool_calls[idx].name)))
  /\ idx' = idx + 1
  /\ pc' = "TOOLS_PENDING"
  /\ UNCHANGED meVars
  /\ UNCHANGED <<history, messages, response, tool_calls, returned, failure,
                 calls, responses, batches, dispatched>>

\* requests.post raises: the exception leaves push, the tool, the loop, chat.
PostRaises ==
  /\ pc = "IN_PUSH"
  /\ \E outcome \in PostOutcomes :
       /\ PushRaises(outcome)
       /\ pushes' = [pushes EXCEPT ![Len(pushes)].outcome = outcome]
       /\ failure' = outcome
  /\ pc' = "FAILED"
  /\ UNCHANGED meVars
  /\ UNCHANGED <<history, messages, response, tool_calls, idx, results,
                 returned, calls, responses, batches, dispatched>>

\* handle_tool_call returns results; chat appends: lines 155, 186-187.
HandleReturn ==
  /\ pc = "TOOLS_PENDING"
  /\ ~response.tool_calls_none
  /\ idx > Len(tool_calls)
  /\ batches' = Append(batches, results)
  /\ messages' = AppendBatch(messages, response, results)
  /\ history' = CallerHistory(history, messages')
  /\ pc' = "AWAITING_MODEL"
  /\ UNCHANGED meVars
  /\ UNCHANGED <<response, tool_calls, idx, results, returned,
                 failure, calls, responses, pushes, dispatched>>

Next ==
  \/ ChatStart
  \/ ModelFails
  \/ ModelResponds
  \/ IterateNone
  \/ DispatchRaises
  \/ DispatchSubstitute
  \/ DispatchCall
  \/ PostReturns
  \/ PostRaises
  \/ HandleReturn

Spec == Init /\ [][Next]_vars

(* ------------------- Me.__init__ and the loader ------------------------ *)
\* No Me object yet; chat is not running.
InitLoad ==
  /\ pc = "IDLE"
  /\ history = <<>>
  /\ messages = <<>>
  /\ response = NoResponse
  /\ tool_calls = <<>>
  /\ idx = 1
  /\ results = <<>>
  /\ returned = NoText
  /\ failure = "none"
  /\ calls = <<>>
  /\ responses = <<>>
  /\ batches = <<>>
  /\ pushes = <<>>
  /\ dispatched = <<>>
  /\ me_dir \in Directories
  /\ name = ""
  /\ resources = NoResources
  /\ lpc = "new"
  /\ unvisited = {}
  /\ loads = <<>>
  /\ prompt = <<>>

\* Me() is constructed (again, for a further load of the same directory):
\* lines 81-84 and 88-91.
Construct ==
  /\ lpc \in {"new", "loaded"}
  /\ Len(loads) < MaxLoads
  /\ name' = "Lianne Achilles"
  /\ resources' = NoResources
  /\ prompt' = <<>>
  /\ IF me_dir.exists
     THEN /\ lpc' = "iterating"
          /\ unvisited' = me_dir.entries
          /\ UNCHANGED loads
     ELSE /\ lpc' = "loaded"
          /\ loads' = Append(loads, NoResources)
          /\ UNCHANGED unvisited
  /\ UNCHANGED me_dir
  /\ UNCHANGED chatVars

\* iterdir yields one more entry, in whatever order: lines 94-104.
LoadEntry ==
  /\ lpc = "iterating"
  /\ \E e \in unvisited :
       /\ unvisited' = unvisited \ {e}
       /\ resources' = load_entry(resources, e).resources
       /\ lpc' = IF load_entry(resources, e).raised THEN "failed" ELSE "iterating"
  /\ UNCHANGED <<name, me_dir, loads, prompt>>
  /\ UNCHANGED chatVars

\* iterdir is exhausted: _load_all_resources and __init__ return.
LoadDone ==
  /\ lpc = "iterating"
  /\ unvisited = {}
  /\ lpc' = "loaded"
  /\ loads' = Append(loads, resources)
  /\ UNCHANGED <<name, resources, me_dir, unvisited, prompt>>
  /\ UNCHANGED chatVars

\* me.system_prompt() is called on the constructed object.
BuildPrompt ==
  /\ lpc = "loaded"
  /\ prompt = <<>>
  /\ prompt' = system_prompt_parts(name, resources)
  /\ UNCHANGED <<name, resources, me_dir, lpc, unvisited, loads>>
  /\ UNCHANGED chatVars

NextLoad ==
  \/ Construct
  \/ LoadEntry
  \/ LoadDone
  \/ BuildPrompt

SpecLoad == InitLoad /\ [][NextLoad]_vars

TypeOK ==
  /\ pc \in {"IDLE", "AWAITING_MODEL", "TOOLS_PENDING", "IN_PUSH", "DONE", "FAILED"}
  /\ Len(calls) <= MaxCalls
  /\ idx \in 1..(MaxBatch + 1)
  /\ history \in Histories
  /\ lpc \in {"new", "iterating", "loaded", "failed"}
  /\ unvisited \subseteq me_dir.entries
  /\ Len(loads) <= MaxLoads

(* ----------------------------- properties ------------------------------ *)
\* Length of the sequence built at line 178; later positions are the loop's.
BaseLen == Len(history) + 2

Contains(seq, m) == \E p \in 1..Len(seq) : seq[p] = m

AllSignal(n) == \A j \in 1..n : SignalsToolCalls(responses[j])

DispatchFailures == {"JSONDecodeError", "TypeError", "ConnectionError"}

\* C1: if the first k responses of the turn signal tool calls and the
\* (k+1)-th does not, chat has made exactly k+1 model calls, every call after
\* the first was given the tool Messages of all earlier batches, and chat
\* returned the text of the (k+1)-th response; for k = 0 that is one model
\* call and no tool dispatch.
C1_RoundTripsThenAnswer ==
  \A k \in 0..(Len(responses) - 1) :
    (AllSignal(k) /\ ~SignalsToolCalls(responses[k + 1])) =>
      /\ Len(calls) = k + 1
      /\ Len(batches) = k
      /\ pc = "DONE"
      /\ returned = responses[k + 1].content
      /\ \A j \in 2..(k + 1) : \A b \in 1..(j - 1) :
           /\ Len(batches[b]) = Len(responses[b].tool_calls)
           /\ \A m \in 1..Len(batches[b]) : Contains(calls[j], batches[b][m])
      /\ (k = 0 => dispatched = <<>> /\ pushes = <<>>)

C1_Witness ==
  /\ pc = "DONE"
  /\ Len(calls) = 3
  /\ Len(batches[1]) >= 1
  /\ Len(batches[2]) >= 1
  /\ returned = "answer_3"

\* C2: at every model call after the first, each invocation of an assistant
\* message the loop appended has exactly one tool Message with its identifier
\* in the sequence passed, placed after that assistant message.
C2_ExactlyOneAnswerPerInvocation ==
  \A j \in 2..Len(calls) :
    LET seq == calls[j]
    IN  \A p \in (BaseLen + 1)..Len(seq) :
          seq[p].role = "assistant" =>
            \A t \in 1..Len(seq[p].tool_calls) :
              LET hits == { q \in 1..Len(seq) :
                              /\ seq[q].role = "tool"
                              /\ seq[q].tool_call_id = seq[p].tool_calls[t].id }
              IN  Cardinality(hits) = 1 /\ \A q \in hits : q > p

C2_Witness ==
  /\ Len(calls) = 3
  /\ \E p \in (BaseLen + 1)..Len(calls[3]) :
       calls[3][p].role = "assistant" /\ Len(calls[3][p].tool_calls) = 2
  /\ \E p \in (BaseLen + 1)..Len(calls[3]) :
       calls[3][p].role = "assistant" /\ Len(calls[3][p].tool_calls) = 0

\* C3: whenever chat has returned, every invocation carried by the response
\* it returned from has a tool Message in the sequence, whatever the finish
\* reason of that response.
C3_NoUnansweredInvocationAtDone ==
  pc = "DONE" =>
    \A t \in 1..Len(response.tool_calls) :
      \E q \in 1..Len(messages) :
        /\ messages[q].role = "tool"
        /\ messages[q].tool_call_id = response.tool_calls[t].id

\* C4: an invocation whose name is not one of the two registered tools,
\* whatever its payload, is answered in one step by a tool Message with
\* content "{}" and its identifier, and the loop goes on to the next
\* invocation without raising.
C4_UnregisteredNameYieldsEmptyObject ==
  [][ ( /\ pc = "TOOLS_PENDING"
        /\ ~response.tool_calls_none
        /\ idx <= Len(tool_calls)
        /\ tool_calls[idx].name \notin RegisteredTools )
      => ( /\ pc' = "TOOLS_PENDING"
           /\ idx' = idx + 1
           /\ results' = Append(results, ToolMsg("{}", tool_calls[idx].id)) ) ]_vars

\* C5: a batch of N >= 0 invocations that dispatches without failure yields
\* exactly N tool Messages, the i-th carrying the i-th invocation's
\* identifier; while the loop runs, one Message per invocation passed.
C5_OneMessagePerInvocationInOrder ==
  /\ \A b \in 1..Len(batches) :
       LET tcs == responses[b].tool_calls
       IN  /\ Len(batches[b]) = Len(tcs)
           /\ \A i \in 1..Len(tcs) :
                /\ batches[b][i].role = "tool"
                /\ batches[b][i].tool_call_id = tcs[i].id
  /\ pc = "TOOLS_PENDING" /\ ~response.tool_calls_none =>
       /\ Len(results) = idx - 1
       /\ \A i \in 1..Len(results) : results[i].tool_call_id = tool_calls[i].id

C5_Witness ==
  /\ \E b \in 1..Len(batches) : Len(batches[b]) = 2
  /\ \E b \in 1..Len(batches) : Len(batches[b]) = 0

\* C6: in every message sequence of the turn, each tool Message the loop
\* appended carries the identifier of an invocation of an assistant message
\* that stands earlier in the sequence.
C6_ToolMessageAnswersEarlierInvocation ==
  \A q \in (BaseLen + 1)..Len(messages) :
    messages[q].role = "tool" =>
      \E p \in 1..(q - 1) :
        /\ messages[p].role = "assistant"
        /\ \E t \in 1..Len(messages[p].tool_calls) :
             messages[p].tool_calls[t].id = messages[q].tool_call_id

C6_Witness ==
  /\ Len(messages) >= BaseLen + 4
  /\ messages[Len(messages)].role = "tool"
  /\ messages[BaseLen + 2].role = "tool"

\* C7 as stated: whenever all n responses so far signal tool calls, an
\* (n+1)-th model call has been issued or the loop is still on its way to it
\* (it has neither returned nor been left by an exception).
C7_Original_AlwaysAnotherCall ==
  AllSignal(Len(responses)) =>
    \/ Len(calls) > Len(responses)
    \/ pc \in {"IDLE", "AWAITING_MODEL", "TOOLS_PENDING", "IN_PUSH"}

\* C7 amended: no iteration cap.  Whenever all n responses so far signal
\* tool calls, an (n+1)-th model call has been issued, or the loop is on its
\* way to it, or the dispatch of a batch raised and aborted the turn; at
\* AWAITING_MODEL the call is issued whatever n is (within the bound of the
\* exploration); and chat has returned exactly when some response did not
\* signal tool calls.
C7_NoIterationCap ==
  /\ AllSignal(Len(responses)) =>
       \/ Len(calls) > Len(responses)
       \/ pc \in {"IDLE", "AWAITING_MODEL", "TOOLS_PENDING", "IN_PUSH"}
       \/ pc = "FAILED" /\ failure \in DispatchFailures
  /\ (pc = "AWAITING_MODEL" /\ Len(calls) < MaxCalls) => ENABLED ModelResponds
  /\ pc = "DONE" <=> ~AllSignal(Len(responses))
  /\ pc = "AWAITING_MODEL" => Len(calls) = Len(responses) /\ Len(batches) = Len(calls)

C7_Witness ==
  /\ pc = "AWAITING_MODEL"
  /\ Len(responses) = MaxCalls - 1
  /\ AllSignal(Len(responses))

\* C8: a payload of a registered tool that does not parse or does not fit
\* the parameters aborts the turn in that step: no text is returned, no
\* result is added, nothing further is dispatched, and after the abort no
\* model call and no dispatch follows.
C8_MalformedPayloadAbortsTurn ==
  [][ /\ ( /\ pc = "TOOLS_PENDING"
           /\ ~response.tool_calls_none
           /\ idx <= Len(tool_calls)
           /\ tool_calls[idx].name \in RegisteredTools
           /\ \/ ~json_loads(tool_calls[idx].arguments).ok
              \/ ~Binds(tool_calls[idx].name, json_loads(tool_calls[idx].arguments).value) )
         => ( /\ pc' = "FAILED"
              /\ failure' \in {"JSONDecodeError", "TypeError"}
              /\ returned' = NoText
              /\ UNCHANGED <<results, dispatched, pushes, calls, messages>> )
      /\ (pc = "FAILED" /\ failure \in {"JSONDecodeError", "TypeError"})
         => UNCHANGED <<pc, returned, results, dispatched, pushes, calls, messages>>
    ]_vars

C8_Witness ==
  /\ pc = "FAILED"
  /\ failure = "JSONDecodeError"
  /\ idx < Len(tool_calls)
  /\ tool_calls[idx].name \in RegisteredTools
  /\ returned = NoText

\* C9: whatever the outcome of the notifier post made for a registered
\* tool, the tool returns its acknowledgement, its tool Message is produced
\* and the loop goes on.
C9_NotifierFailureNotFatal ==
  [][ (pc = "IN_PUSH" /\ tool_calls[idx].name \in RegisteredTools)
      => ( /\ pc' = "TOOLS_PENDING"
           /\ idx' = idx + 1
           /\ results' = Append(results,
                           ToolMsg("{\"recorded\": \"ok\"}", tool_calls[idx].id)) ) ]_vars

\* C10: a model call that fails aborts the turn in that step with no text
\* returned, and after it no model call is made and nothing is dispatched.
C10_ModelFailureAbortsTurn ==
  [][ /\ (pc = "AWAITING_MODEL" /\ calls' # calls /\ responses' = responses)
         => ( /\ pc' = "FAILED"
              /\ failure' = "APIError"
              /\ returned' = NoText
              /\ UNCHANGED <<messages, results, dispatched, pushes>> )
      /\ failure = "APIError"
         => ( /\ pc = "FAILED"
              /\ UNCHANGED <<pc, failure, returned, calls, responses, messages,
                             results, dispatched, pushes>> )
    ]_vars

C10_Witness ==
  /\ pc = "FAILED"
  /\ failure = "APIError"
  /\ Len(calls) = 2
  /\ Len(responses) = 1
  /\ Len(dispatched) >= 1

\* Position of an identifier in the order the provider issued them.
IssueIndex(id) == CHOOSE n \in 1..Issued(responses) : CallId(n) = id

\* C11: invocations are dispatched one at a time in input order: a handler
\* (its notifier post included) has completed before the next one starts, a
\* batch has completed before the next model call, and the notifier posts of
\* the turn are made in invocation order, batch after batch.
C11_SequentialDispatch ==
  /\ \A i \in 1..Len(pushes) : \A j \in (i + 1)..Len(pushes) :
       IssueIndex(pushes[i].id) < IssueIndex(pushes[j].id)
  /\ \A i \in 1..Len(dispatched) : \A j \in (i + 1)..Len(dispatched) :
       IssueIndex(dispatched[i].id) < IssueIndex(dispatched[j].id)
  /\ \A i \in 1..(Len(pushes) - 1) : pushes[i].outcome # "pending"
  /\ (pc = "IN_PUSH") <=>
       (pushes # <<>> /\ pushes[Len(pushes)].outcome = "pending")
  /\ pc = "IN_PUSH" =>
       /\ Len(results) = idx - 1
       /\ dispatched[Len(dispatched)].id = tool_calls[idx].id
       /\ pushes[Len(pushes)].id = tool_calls[idx].id
  /\ (pc = "TOOLS_PENDING" /\ ~response.tool_calls_none) =>
       /\ Len(results) = idx - 1
       /\ Len(dispatched) = Issued(responses) - Len(tool_calls) + (idx - 1)
  /\ \A j \in 2..Len(calls) :
       \A b \in 1..(j - 1) : \A t \in 1..Len(responses[b].tool_calls) :
         \E d \in 1..Len(dispatched) :
           dispatched[d].id = responses[b].tool_calls[t].id
  /\ pc = "AWAITING_MODEL" => Len(dispatched) = Issued(responses)

C11_Witness ==
  /\ pc = "AWAITING_MODEL"
  /\ Len(calls) = 1
  /\ Len(pushes) = 2
  /\ Len(responses[1].tool_calls) = 2
  /\ pushes[1].id = responses[1].tool_calls[1].id
  /\ pushes[2].id = responses[1].tool_calls[2].id

\* The invocation the provider issued under an identifier.
InvocationOf(id) ==
  LET b == CHOOSE b \in 1..Len(responses) :
             \E t \in 1..Len(responses[b].tool_calls) : responses[b].tool_calls[t].id = id
      t == CHOOSE t \in 1..Len(responses[b].tool_calls) : responses[b].tool_calls[t].id = id
  IN  responses[b].tool_calls[t]

EmailOnly(id) ==
  /\ InvocationOf(id).name = "record_user_details"
  /\ json_loads(InvocationOf(id).arguments).ok
  /\ Keys(json_loads(InvocationOf(id).arguments).value) = {"email"}

EmailOf(id) == Get(json_loads(InvocationOf(id).arguments).value, "email", "")

\* C16 as stated: record_user_details called with only an email reports the
\* name as "not provided" and the notes as "not provided".
C16_Original_BothSentinelsNotProvided ==
  \A i \in 1..Len(pushes) :
    EmailOnly(pushes[i].id) =>
      pushes[i].text = "Recording not provided with email " \o EmailOf(pushes[i].id)
                         \o " and notes not provided"

\* C16 amended: record_user_details called with only an email reports the
\* name as "Name not provided" and the notes as "not provided", and what it
\* returns is the acknowledgement record.
C16_DefaultsOfOmittedParameters ==
  /\ \A i \in 1..Len(pushes) :
       EmailOnly(pushes[i].id) =>
         pushes[i].text = "Recording Name not provided with email "
                            \o EmailOf(pushes[i].id) \o " and notes not provided"
  /\ \A q \in (BaseLen + 1)..Len(messages) :
       (messages[q].role = "tool" /\ EmailOnly(messages[q].tool_call_id)) =>
         messages[q].content = "{\"recorded\": \"ok\"}"
  /\ \A q \in 1..Len(results) :
       EmailOnly(results[q].tool_call_id) =>
         results[q].content = "{\"recorded\": \"ok\"}"

C16_Witness ==
  /\ Len(pushes) >= 1
  /\ EmailOnly(pushes[1].id)
  /\ pushes[1].outcome = "ok"
  /\ Len(results) >= 1
  /\ results[1].tool_call_id = pushes[1].id

\* C17: whatever tool name a response carries, dispatch executes nothing
\* but record_user_details or record_unknown_question (or substitutes {}).
C17_OnlyRegisteredToolsExecuted ==
  \A d \in 1..Len(dispatched) : dispatched[d].tool \in RegisteredTools \cup {"{}"}

\* C18: at every point of the turn the number of notifier posts made equals
\* the number of registered-tool invocations dispatched so far, one post per
\* such invocation and none for any other name.
C18_OneNotifierCallPerRegisteredInvocation ==
  /\ Len(pushes) =
       Cardinality({ d \in 1..Len(dispatched) : dispatched[d].tool \in RegisteredTools })
  /\ \A i \in 1..Len(pushes) : InvocationOf(pushes[i].id).name \in RegisteredTools

\* C19: the sequence passed to every model call begins with
\* [system] + history + [user]; the sequence passed to call j+1 is the one
\* passed to call j, then the assistant message of response j, then one tool
\* Message per invocation of response j in invocation order; the local
\* sequence only ever extends what was passed last.
C19_AppendOnly ==
  /\ \A j \in 1..Len(calls) :
       /\ Len(calls[j]) >= BaseLen
       /\ \E message \in UserMessages :
            SubSeq(calls[j], 1, BaseLen) =
              (<<Msg("system", system_prompt(name, resources))>> \o history) \o <<Msg("user", message)>>
  /\ \A j \in 1..(Len(calls) - 1) :
       LET before == calls[j]
           after == calls[j + 1]
           tcs == responses[j].tool_calls
       IN  /\ Len(after) = Len(before) + 1 + Len(tcs)
           /\ SubSeq(after, 1, Len(before)) = before
           /\ after[Len(before) + 1] = AssistantMsg(responses[j].content, tcs)
           /\ \A t \in 1..Len(tcs) :
                /\ after[Len(before) + 1 + t].role = "tool"
                /\ after[Len(before) + 1 + t].tool_call_id = tcs[t].id
  /\ calls # <<>> =>
       /\ Len(messages) >= Len(calls[Len(calls)])
       /\ SubSeq(messages, 1, Len(calls[Len(calls)])) = calls[Len(calls)]

C19_Witness ==
  /\ Len(calls) = 3
  /\ history # <<>>
  /\ Len(responses[1].tool_calls) = 1
  /\ Len(responses[2].tool_calls) = 1

\* C20 as stated: while the invocations of a response are pending or being
\* handled, the assistant message of that response is already in the sequence.
C20_Original_AssistantAppendedBeforeDispatch ==
  pc \in {"TOOLS_PENDING", "IN_PUSH"} =>
    Contains(messages, AssistantMsg(response.content, response.tool_calls))

\* C20 amended: the assistant message of a tool-call response is appended
\* only after every invocation of the response was dispatched, together with
\* the batch's tool Messages; while invocations are pending or being handled
\* the sequence is still the one that was passed to the model.
C20_AssistantAppendedAfterDispatch ==
  /\ pc \in {"TOOLS_PENDING", "IN_PUSH"} =>
       /\ messages = calls[Len(calls)]
       /\ ~Contains(messages, AssistantMsg(response.content, response.tool_calls))
  /\ (pc = "AWAITING_MODEL" /\ responses # <<>>) =>
       /\ Contains(messages, AssistantMsg(response.content, response.tool_calls))
       /\ \A t \in 1..Len(response.tool_calls) :
            \E d \in 1..Len(dispatched) : dispatched[d].id = response.tool_calls[t].id

C20_Witness ==
  /\ pc = "TOOLS_PENDING"
  /\ Len(tool_calls) = 2
  /\ idx = 3
  /\ Len(dispatched) >= 2
  /\ messages = calls[Len(calls)]

\* C12: no step of a turn, whether it is answered directly, answered after
\* tool round-trips or aborted, changes the caller's history, the Resource
\* Store or the persona name.
C12_ChatLeavesCallerStateUnchanged ==
  [][UNCHANGED <<history, resources, name>>]_vars

C12_Witness ==
  /\ pc = "FAILED"
  /\ Len(batches) >= 1
  /\ Len(messages) > BaseLen
  /\ history # <<>>
  /\ resources # NoResources

\* The entries the running (or finished) load has been given by iterdir.
Visited == IF lpc = "new" THEN {} ELSE me_dir.entries \ unvisited

\* A direct file entry that yields non-empty text after trimming.
YieldsText(e) ==
  /\ e.is_file
  /\ ~read_file_content(e).raised
  /\ ~read_file_content(e).none
  /\ read_file_content(e).text # ""

\* C13: whatever the directory (absent, empty, any mix of sub-directories
\* and readable, empty, blank, undecodable and corrupt files), the load never
\* raises and the mapping has a key exactly for the base name of every direct
\* file entry that yields non-empty trimmed text; an absent directory gives
\* the empty mapping.
C13_LoadNeverRaisesKeysExact ==
  /\ lpc # "failed"
  /\ KeySet(resources) = { stem(e.name) : e \in { f \in Visited : YieldsText(f) } }
  /\ \A i \in 1..Len(resources) : \A j \in 1..Len(resources) :
       resources[i].key = resources[j].key => i = j
  /\ \A i \in 1..Len(resources) : resources[i].content # ""
  /\ (lpc = "loaded" /\ ~me_dir.exists) => resources = NoResources
  /\ lpc = "loaded" => unvisited = {}

C13_Witness ==
  /\ lpc = "loaded"
  /\ me_dir.entries = {E_bio_PDF, E_blank_md, E_cv_pdf}
  /\ resources = <<[key |-> <<"c", "v">>, content |-> "Curriculum vitae\nPage 3"]>>

\* The files of the directory that give key k its text.
Sources(k) == { e \in me_dir.entries : YieldsText(e) /\ stem(e.name) = k }

\* C14 as stated: two loads of the same directory give the same key set and
\* the same content per key, whatever the content and the iteration orders.
C14_Original_LoadTwiceIdentical ==
  \A a \in 1..Len(loads) : \A b \in 1..Len(loads) :
    /\ KeySet(loads[a]) = KeySet(loads[b])
    /\ \A k \in KeySet(loads[a]) : Lookup(loads[a], k) = Lookup(loads[b], k)

\* C14 amended: two loads of the same directory give the same key set; the
\* content of a key is the text of one of the files with that base name, and
\* it is the same in both loads when only one file yields text under it.
C14_LoadTwiceSameKeys ==
  \A a \in 1..Len(loads) : \A b \in 1..Len(loads) :
    /\ KeySet(loads[a]) = KeySet(loads[b])
    /\ \A k \in KeySet(loads[a]) :
         /\ \E e \in Sources(k) : Lookup(loads[a], k) = read_file_content(e).text
         /\ Cardinality(Sources(k)) = 1 => Lookup(loads[a], k) = Lookup(loads[b], k)

C14_Witness ==
  /\ Len(loads) = 2
  /\ me_dir.entries = {E_cv_txt, E_cv_pdf, E_my_notes}
  /\ Lookup(loads[1], <<"c", "v">>) # Lookup(loads[2], <<"c", "v">>)
  /\ Lookup(loads[1], stem(E_my_notes.name)) = Lookup(loads[2], stem(E_my_notes.name))

HasSection(parts, r) ==
  \E i \in 1..(Len(parts) - 4) :
    SubSeq(parts, i, i + 4) = <<"\n### ", Join(title(r.key)), ":\n", r.content, "\n">>

HasPart(parts, str) == \E i \in 1..Len(parts) : parts[i] = str

\* C15: for a non-empty Resource Store the system instruction has, for each
\* resource, a section with the title-cased key and the full text, and no
\* note; for an empty one it has the note that no resources were loaded and
\* no section.
C15_PromptSections ==
  prompt # <<>> =>
    IF resources # NoResources
    THEN /\ \A i \in 1..Len(resources) : HasSection(prompt, resources[i])
         /\ HasPart(prompt, "\n\n## Available Resources:\n")
         /\ ~HasPart(prompt, "\n\n## Note: No resources were loaded from the me/ directory.")
         /\ Cardinality({ i \in 1..Len(prompt) : prompt[i] = "\n### " }) = Len(resources)
    ELSE /\ HasPart(prompt, "\n\n## Note: No resources were loaded from the me/ directory.")
         /\ ~HasPart(prompt, "\n### ")
         /\ ~HasPart(prompt, "\n\n## Available Resources:\n")

C15_Witness ==
  /\ Len(resources) = 2
  /\ \E i \in 1..(Len(prompt) - 4) :
       SubSeq(prompt, i, i + 4) = <<"\n### ", "My_Notes", ":\n", "I like tea.", "\n">>
  /\ \E i \in 1..(Len(prompt) - 4) :
       SubSeq(prompt, i, i + 4) = <<"\n### ", ".Env", ":\n", "TOKEN=abc", "\n">>

====
